---- MODULE Spec2Model ----
(***************************************************************************)
(* cert-manager webhook solver for the Hetzner DNS API (src/main.go).      *)
(*                                                                         *)
(* The solver keeps no state of its own: the provider's record set is the  *)
(* only state shared between calls.  A call of Present or CleanUp is a     *)
(* short sequence of blocking HTTP requests; each request, together with   *)
(* the provider's answer to it, is one step of the model, so calls the     *)
(* host runs at the same time interleave between requests.                 *)
(***************************************************************************)
EXTENDS Integers, Sequences, FiniteSets, TLC

\* ------------------------------------------------------------------ bounds

\* Number of records the provider creates in one behaviour.
MaxCreated == 2
\* Number of records the zone holds before the first call.
MaxInitRecords == 5
\* Length of the resolved zone and of the resolved FQDN the domain split is
\* tried on.
MaxStrLen == 4

\* --------------------------------------------------------- program constants

\* Entry{"", name, 300, "TXT", ch.Key, ...}: the TTL of a presented record.
TTL == 300
\* resp.StatusCode != 200
StatusOK == 200

\* ------------------------------------------------------------------ strings
\* Go strings are modelled as sequences of one-character strings.

HasSuffix(s, suffix) ==
    /\ Len(s) >= Len(suffix)
    /\ SubSeq(s, Len(s) - Len(suffix) + 1, Len(s)) = suffix

\* strings.TrimSuffix: s without the trailing suffix, s itself when it does
\* not end with it.
TrimSuffix(s, suffix) ==
    IF HasSuffix(s, suffix) THEN SubSeq(s, 1, Len(s) - Len(suffix)) ELSE s

Dot == <<".">>

\* strings.TrimRight(s, "."): s without all of its trailing dots.
RECURSIVE TrimRightDots(_)
TrimRightDots(s) ==
    IF Len(s) > 0 /\ s[Len(s)] = "." THEN TrimRightDots(SubSeq(s, 1, Len(s) - 1))
    ELSE s

\* getDomainAndEntry with TrimRight in the place of the second TrimSuffix.
getDomainAndEntryTrimRight(ch) ==
    LET entry  == TrimRightDots(TrimSuffix(ch.ResolvedFQDN, ch.ResolvedZone))
        domain == TrimSuffix(ch.ResolvedZone, Dot)
    IN  [entry |-> entry, domain |-> domain]

\* getDomainAndEntry returns (entry, domain).
getDomainAndEntry(ch) ==
    LET entry  == TrimSuffix(TrimSuffix(ch.ResolvedFQDN, ch.ResolvedZone), Dot)
        domain == TrimSuffix(ch.ResolvedZone, Dot)
    IN  [entry |-> entry, domain |-> domain]

\* ---------------------------------------------------------------- challenges

\* The validation keys of two challenges for the same record name.
Keys == {"k1", "k2"}

\* "c." and "a.c.": the resolved zone and the resolved FQDN, both
\* dot-terminated, as cert-manager hands them over.
ResolvedZone == <<"c", ".">>
ResolvedFQDN == <<"a", ".">> \o ResolvedZone

\* v1alpha1.ChallengeRequest, the fields the solver reads.
ChallengeRequest(key) ==
    [ResolvedFQDN |-> ResolvedFQDN, ResolvedZone |-> ResolvedZone, Key |-> key]

Challenges == {ChallengeRequest(k) : k \in Keys}

\* The label and the apex the split yields for the challenges above.
Label == getDomainAndEntry(ChallengeRequest("k1")).entry
OtherLabel == <<"b">>

\* ------------------------------------------------------------------ provider

\* type Zone struct { ZoneID, Name }
Zone(id, name) == [ZoneID |-> id, Name |-> name]

Z42 == Zone("42", <<"c">>)
Z43 == Zone("43", <<"c">>)

\* The zone lists a 200 answer to GET /zones?name=<apex> may carry: none,
\* the one zone of that name, or more than one.
ZoneLists == {<<>>, <<Z42>>, <<Z43, Z42>>}

\* HTTP status codes the provider answers with.
Statuses == {200, 201, 422, 500}

Is2xx(status) == status \in 200..299

\* type Entry struct { ID, Name, TTL, Type, Value, ZoneID }
Entry(id, name, ttl, type, value, zoneID) ==
    [ID |-> id, Name |-> name, TTL |-> ttl, Type |-> type, Value |-> value,
     ZoneID |-> zoneID]

\* http.NewRequest("DELETE", ".../records/"+e.ID, nil) fails when the URL does
\* not parse; of the identifiers here only "\n", a control character, does
\* not.
ValidURL(id) == id # "\n"

\* What zone 42 may hold before the first call: the first records of this
\* list, at most MaxInitRecords of them.
Stock ==
    << Entry("1", Label, TTL, "TXT", "k1", "42"),
       Entry("2", Label, TTL, "TXT", "k2", "42"),
       Entry("3", Label, TTL, "A", "k1", "42"),
       Entry("4", OtherLabel, TTL, "TXT", "k1", "42"),
       Entry("\n", Label, TTL, "TXT", "k1", "42"),
       Entry("5", Label, TTL, "TXT", "k1", "42") >>

\* The provider numbers the records it creates; Stock uses "1" to "5".
FirstFreshID == Len(Stock)

\* A record of zone 43, the other zone of the account: it has the name and
\* the value of a challenge record of zone 42.
Foreign == Entry("0", Label, TTL, "TXT", "k1", "43")

InitialRecords ==
    {<<Foreign>> \o SubSeq(Stock, 1, n) :
        n \in 0..(IF MaxInitRecords < Len(Stock) THEN MaxInitRecords
                  ELSE Len(Stock))}

\* GET /records?zone_id=<id>: the zone's records in the provider's order.
RecordsOfZone(recs, zoneID) == SelectSeq(recs, LAMBDA e : e.ZoneID = zoneID)

\* DELETE /records/<id>
WithoutID(recs, id) == SelectSeq(recs, LAMBDA e : e.ID # id)

HasID(recs, id) == \E i \in 1..Len(recs) : recs[i].ID = id

\* ------------------------------------------------------------------ requests
\* What a call sends: the log of a call lists its requests in the order sent.

\* GET /api/v1/zones?name=<zone>
ZonesRequest(zone) == [kind |-> "zones", method |-> "GET", arg |-> zone]
\* POST /api/v1/records, body = the marshalled Entry
CreateRequest(entry) == [kind |-> "create", method |-> "POST", arg |-> entry]
\* GET /api/v1/records?zone_id=<ZoneID>
ListRequest(zoneID) == [kind |-> "list", method |-> "GET", arg |-> zoneID]
\* DELETE /api/v1/records/<ID>
DeleteRequest(id) == [kind |-> "delete", method |-> "DELETE", arg |-> id]

\* ------------------------------------------------------------ provider answers

\* client.Do on the zone query: the request fails in transport, or the
\* provider answers with a status; a 200 answer carries a body that does not
\* decode, or a zone list.
ZoneAnswers ==
    {[kind |-> "transport", status |-> 0, zones |-> <<>>]}
    \cup {[kind |-> "status", status |-> s, zones |-> <<>>] :
            s \in Statuses \ {StatusOK}}
    \cup {[kind |-> "malformed", status |-> StatusOK, zones |-> <<>>]}
    \cup {[kind |-> "zones", status |-> StatusOK, zones |-> zl] : zl \in ZoneLists}

\* client.Do on the record creation and on a DELETE.
RecordAnswers ==
    {[kind |-> "transport", status |-> 0]}
    \cup {[kind |-> "status", status |-> s] : s \in Statuses}

\* client.Do on the record listing: the answer has a body as well, one that
\* does not decode, or a JSON object.
ListAnswers ==
    {[kind |-> "transport", status |-> 0]}
    \cup {[kind |-> k, status |-> s] : k \in {"malformed", "json"}, s \in Statuses}

\* The answers of a provider that is up and holds zone 42 alone under the
\* queried name; it may still refuse a DELETE.
GoodZoneAnswers == {[kind |-> "zones", status |-> StatusOK, zones |-> <<Z42>>]}
GoodCreateAnswers == {[kind |-> "status", status |-> StatusOK]}
GoodListAnswers == {[kind |-> "json", status |-> StatusOK]}
GoodDeleteAnswers == {[kind |-> "status", status |-> s] : s \in {StatusOK, 422}}

\* --------------------------------------------------------------------- state

VARIABLES
    records,    \* the provider's records, all zones, in the provider's order
    nextId,     \* the number the provider gives the next record it creates
    calls,      \* the host's calls of Present and CleanUp, by call slot
    records0,   \* history: the records before the first call
    presented,  \* history: the keys a Present call has returned success for
    round,      \* history: the Presents and the CleanUp of a round trip
    domainSplit \* a challenge and what getDomainAndEntry returns for it

vars == <<records, nextId, calls, records0, presented, round, domainSplit>>

\* Present(k1), CleanUp(k1), Present(k2), CleanUp(k2) have a slot each when
\* the host runs them at the same time; a host that makes one call at a time
\* uses the first slot for all of them.
CallIds == 1..4

\* A call the host has not made.
NoCall ==
    [op |-> "none", pc |-> "idle", key |-> "", name |-> <<>>, zone |-> <<>>,
     zanswer |-> "none", zstatus |-> 0, zones |-> <<>>,
     panswer |-> "none", pstatus |-> 0,
     lanswer |-> "none", lstatus |-> 0, listing |-> <<>>, idx |-> 0,
     dels |-> <<>>, reqs |-> <<>>, result |-> "none",
     solo |-> TRUE, again |-> FALSE, before |-> <<>>]

NoRound == [st |-> "presenting", key |-> "", n |-> 0]
Void == [st |-> "void", key |-> "", n |-> 0]

\* The challenges the domain split is tried on: every resolved FQDN and
\* resolved zone of at most MaxStrLen characters out of "a", "c" and ".",
\* dot-terminated or not, the zone a suffix of the FQDN or not.
Alphabet == {"a", "c", "."}
Strings == UNION {[1..n -> Alphabet] : n \in 0..MaxStrLen}

\* No split asked for: the challenge of Present and CleanUp above.
NoSplit ==
    [ResolvedFQDN |-> ResolvedFQDN, ResolvedZone |-> ResolvedZone,
     pc |-> "idle", entry |-> <<>>, domain |-> <<>>]

Init ==
    /\ domainSplit = NoSplit
    /\ records \in InitialRecords
    /\ records0 = records
    /\ nextId = FirstFreshID
    /\ calls = [p \in CallIds |-> NoCall]
    /\ presented = {}
    /\ round = NoRound

Active(p) == calls[p].pc \notin {"idle", "done"}

\* The call returns `result` to the host.
Return(c, result) == [c EXCEPT !.pc = "done", !.result = result]

\* The call has sent request `r`.
Sent(c, r) == [c EXCEPT !.reqs = Append(@, r)]

\* ------------------------------------------------------------------- history
\* What the history variables keep of the calls; the solver reads none of it.

\* The call ran with no other call in flight, every request of it was
\* answered, and answered with success.
Clean(c) ==
    /\ c.solo
    /\ c.result = "ok"
    /\ c.zanswer = "zones" /\ c.zones = <<Z42>>
    /\ c.op = "Present" => c.panswer = "status" /\ Is2xx(c.pstatus)
    /\ c.op = "CleanUp" =>
          /\ c.lanswer = "json" /\ c.lstatus = StatusOK
          /\ \A i \in 1..Len(c.dels) : c.dels[i].outcome = "deleted"

\* A round trip is n >= 1 clean Presents of one key, then one clean CleanUp
\* of that key, and nothing else since the start.
RoundBegin(r) == IF r.st = "cleaned" THEN Void ELSE r

RoundReturn(r, c) ==
    IF r.st # "presenting" \/ ~Clean(c) THEN Void
    ELSE IF c.op = "Present" /\ (r.n = 0 \/ r.key = c.key)
         THEN [st |-> "presenting", key |-> c.key, n |-> r.n + 1]
    ELSE IF c.op = "CleanUp" /\ r.n >= 1 /\ r.key = c.key
         THEN [st |-> "cleaned", key |-> c.key, n |-> r.n]
    ELSE Void

\* The history after a step that leaves the stepping call as `c`.
Remember(r, c) ==
    /\ round' = IF c.pc = "done" THEN RoundReturn(r, c) ELSE r
    /\ presented' = IF c.pc = "done" /\ c.op = "Present" /\ c.result = "ok"
                    THEN presented \cup {c.key} ELSE presented
    /\ UNCHANGED <<records0, domainSplit>>

\* --------------------------------------------------------------------- calls

\* Lines 148-154 and 237-243: the host calls `op` with challenge `ch` in slot
\* p; the configuration is loaded (cfgOk: without error) and the domain split.
\* Of the call's fields, solo (no other call in flight during the call), again
\* (a Present of the key has returned success before) and before (the
\* provider's records when the call began) are history.
Begin(p, op, ch, cfgOk) ==
    /\ ~Active(p)
    /\ LET split == getDomainAndEntry(ch)
           c == [NoCall EXCEPT !.op = op, !.key = ch.Key,
                               !.name = split.entry, !.zone = split.domain,
                               !.solo = \A q \in CallIds : ~Active(q),
                               !.again = ch.Key \in presented,
                               !.before = records]
           c1 == IF cfgOk THEN [c EXCEPT !.pc = "zones"]
                 ELSE Return(c, "ConfigError")
       IN  /\ calls' = [q \in CallIds |->
                          IF q = p THEN c1
                          ELSE IF Active(q) THEN [calls[q] EXCEPT !.solo = FALSE]
                          ELSE calls[q]]
           /\ Remember(RoundBegin(round), c1)
    /\ UNCHANGED <<records, nextId>>

\* ------------------------------------------------------------------- Present

\* The Presents in flight and the records created stay within MaxCreated.
PresentBegin(p, ch, cfgOk) ==
    /\ nextId + Cardinality({q \in CallIds : Active(q) /\ calls[q].op = "Present"})
          < FirstFreshID + MaxCreated
    /\ Begin(p, "Present", ch, cfgOk)

\* PresentZonesStep taking every 2xx status of the zone query for success.
PresentZonesStepAny2xx(c, a) ==
    LET c1 == [Sent(c, ZonesRequest(c.zone)) EXCEPT
                  !.zanswer = a.kind, !.zstatus = a.status]
    IN  IF a.kind = "transport" THEN Return(c1, "TransportError")
        ELSE IF ~Is2xx(a.status) THEN Return(c1, "UnexpectedStatus")
        ELSE IF a.kind # "zones" THEN Return(c1, "DecodeError")
        ELSE IF Len(a.zones) # 1
             THEN Return([c1 EXCEPT !.zones = a.zones], "AmbiguousZone")
        ELSE [c1 EXCEPT !.zones = a.zones, !.pc = "post"]

\* Present, lines 161-187: what the call does with the answer `a` to its zone
\* query.
PresentZonesStep(c, a) ==
    LET c1 == [Sent(c, ZonesRequest(c.zone)) EXCEPT
                  !.zanswer = a.kind, !.zstatus = a.status]
    IN  IF a.kind = "transport" THEN Return(c1, "TransportError")
        ELSE IF a.status # StatusOK THEN Return(c1, "UnexpectedStatus")
        ELSE IF a.kind = "malformed" THEN Return(c1, "DecodeError")
        ELSE IF Len(a.zones) # 1
             THEN Return([c1 EXCEPT !.zones = a.zones], "AmbiguousZone")
        ELSE [c1 EXCEPT !.zones = a.zones, !.pc = "post"]

PresentZones(p, a) ==
    /\ calls[p].op = "Present"
    /\ calls[p].pc = "zones"
    /\ calls' = [calls EXCEPT ![p] = PresentZonesStep(calls[p], a)]
    /\ Remember(round, calls'[p])
    /\ UNCHANGED <<records, nextId>>

\* PresentEntry with the zone's name in the place of its identifier.
PresentEntryZoneName(c) == Entry("", c.name, TTL, "TXT", c.key, c.zones[1].Name)

\* Present, line 196: the record to create.
PresentEntry(c) == Entry("", c.name, TTL, "TXT", c.key, c.zones[1].ZoneID)

\* PresentRecordStep failing when the provider refuses the record (4xx).
PresentRecordStepConflict(c, a) ==
    LET c1 == [Sent(c, CreateRequest(PresentEntry(c))) EXCEPT
                  !.panswer = a.kind, !.pstatus = a.status]
    IN  IF a.kind = "transport" THEN Return(c1, "TransportError")
        ELSE IF a.status \in 400..499 THEN Return(c1, "UnexpectedStatus")
        ELSE Return(c1, "ok")

\* PresentRecordStep failing on a status other than 200.
PresentRecordStepStrict(c, a) ==
    LET c1 == [Sent(c, CreateRequest(PresentEntry(c))) EXCEPT
                  !.panswer = a.kind, !.pstatus = a.status]
    IN  IF a.kind = "transport" THEN Return(c1, "TransportError")
        ELSE IF a.status # StatusOK THEN Return(c1, "UnexpectedStatus")
        ELSE Return(c1, "ok")

\* Present, lines 203-227: what the call does with the answer `a` to its POST.
PresentRecordStep(c, a) ==
    LET c1 == [Sent(c, CreateRequest(PresentEntry(c))) EXCEPT
                  !.panswer = a.kind, !.pstatus = a.status]
    IN  IF a.kind = "transport" THEN Return(c1, "TransportError")
        ELSE Return(c1, "ok")

\* POST /records at the provider: a 2xx answer means the record now exists,
\* under an identifier of the provider's.
Created(recs, id, entry, a) ==
    IF a.kind = "status" /\ Is2xx(a.status)
    THEN Append(recs, [entry EXCEPT !.ID = ToString(id)])
    ELSE recs

PresentRecord(p, a) ==
    /\ calls[p].op = "Present"
    /\ calls[p].pc = "post"
    /\ calls' = [calls EXCEPT ![p] = PresentRecordStep(calls[p], a)]
    /\ records' = Created(records, nextId, PresentEntry(calls[p]), a)
    /\ nextId' = IF records' # records THEN nextId + 1 ELSE nextId
    /\ Remember(round, calls'[p])

\* ------------------------------------------------------------------- CleanUp

CleanUpBegin(p, ch, cfgOk) == Begin(p, "CleanUp", ch, cfgOk)

\* CleanUp, lines 250-278: what the call does with the answer `a` to its zone
\* query.  Line 277 reads Zones[0] of the decoded list, whatever its length:
\* on an empty list the index is out of range and the call panics.
CleanUpZonesStep(c, a) ==
    LET c1 == [Sent(c, ZonesRequest(c.zone)) EXCEPT
                  !.zanswer = a.kind, !.zstatus = a.status]
    IN  IF a.kind = "transport" THEN Return(c1, "TransportError")
        ELSE IF a.status # StatusOK THEN Return(c1, "UnexpectedStatus")
        ELSE IF a.kind = "malformed" THEN Return(c1, "DecodeError")
        ELSE IF Len(a.zones) = 0
             THEN Return([c1 EXCEPT !.zones = a.zones], "panic")
        ELSE [c1 EXCEPT !.zones = a.zones, !.pc = "list"]

CleanUpZones(p, a) ==
    /\ calls[p].op = "CleanUp"
    /\ calls[p].pc = "zones"
    /\ calls' = [calls EXCEPT ![p] = CleanUpZonesStep(calls[p], a)]
    /\ Remember(round, calls'[p])
    /\ UNCHANGED <<records, nextId>>

\* The records a listing answer decodes to: a 200 answer lists the zone; the
\* JSON of any other answer has no "records" member, and decodes to none.
Listed(recs, zoneID, a) ==
    IF a.status = StatusOK THEN RecordsOfZone(recs, zoneID) ELSE <<>>

\* CleanUp, lines 281-308: what the call does with the answer `a` to its
\* record listing, the provider holding `recs`.  The status is not looked
\* at; with no record to scan the call returns nil.
CleanUpListStep(c, a, recs) ==
    LET zoneID == c.zones[1].ZoneID
        c1 == [Sent(c, ListRequest(zoneID)) EXCEPT
                  !.lanswer = a.kind, !.lstatus = a.status]
        listing == Listed(recs, zoneID, a)
    IN  IF a.kind = "transport" THEN Return(c1, "TransportError")
        ELSE IF a.kind = "malformed" THEN Return(c1, "DecodeError")
        ELSE IF Len(listing) = 0 THEN Return(c1, "ok")
        ELSE [c1 EXCEPT !.listing = listing, !.idx = 1, !.pc = "scan"]

CleanUpList(p, a) ==
    /\ calls[p].op = "CleanUp"
    /\ calls[p].pc = "list"
    /\ calls' = [calls EXCEPT ![p] = CleanUpListStep(calls[p], a, records)]
    /\ Remember(round, calls'[p])
    /\ UNCHANGED <<records, nextId>>

\* Match without the comparison of the type.
MatchAnyType(e, name, key) == e.Name = name /\ e.Value = key

\* Match without the comparison of the value.
MatchAnyValue(e, name, key) == e.Type = "TXT" /\ e.Name = name

\* CleanUp, line 309: the record is the challenge's.
Match(e, name, key) == e.Type = "TXT" /\ e.Name = name /\ e.Value = key

\* How the DELETE of one record ends for the call.
DeleteOutcome(a) ==
    IF a.kind = "transport" THEN "transport"
    ELSE IF Is2xx(a.status) THEN "deleted" ELSE "refused"

\* CleanUp, lines 309-313: the turn of the loop on listing[idx] sends a
\* DELETE.
ScanSends(c) ==
    LET e == c.listing[c.idx]
    IN  Match(e, c.name, c.key) /\ ValidURL(e.ID)

\* CleanUpScanStep returning after the first DELETE that was answered.
CleanUpScanStepFirstOnly(c, a) ==
    LET e  == c.listing[c.idx]
        c1 == IF ~Match(e, c.name, c.key) THEN c
              ELSE IF ~ValidURL(e.ID)
                   THEN [c EXCEPT !.dels = Append(@, [id |-> e.ID, outcome |-> "build"])]
              ELSE [Sent(c, DeleteRequest(e.ID)) EXCEPT
                       !.dels = Append(@, [id |-> e.ID, outcome |-> DeleteOutcome(a)])]
        c2 == [c1 EXCEPT !.idx = @ + 1]
    IN  IF c.idx = Len(c.listing)
           \/ (Match(e, c.name, c.key) /\ ValidURL(e.ID) /\ a.kind = "status")
        THEN Return(c2, "ok") ELSE c2

\* CleanUpScanStep returning the error of a DELETE that could not be sent.
CleanUpScanStepAbort(c, a) ==
    LET e  == c.listing[c.idx]
        c1 == IF ~Match(e, c.name, c.key) THEN c
              ELSE IF ~ValidURL(e.ID)
                   THEN [c EXCEPT !.dels = Append(@, [id |-> e.ID, outcome |-> "build"])]
              ELSE [Sent(c, DeleteRequest(e.ID)) EXCEPT
                       !.dels = Append(@, [id |-> e.ID, outcome |-> DeleteOutcome(a)])]
        c2 == [c1 EXCEPT !.idx = @ + 1]
    IN  IF Match(e, c.name, c.key) /\ ValidURL(e.ID) /\ a.kind = "transport"
        THEN Return(c2, "TransportError")
        ELSE IF c.idx = Len(c.listing) THEN Return(c2, "ok") ELSE c2

\* CleanUp, lines 308-340: one turn of the loop, on record listing[idx], `a`
\* being the answer to the DELETE if one is sent; after the last record the
\* call returns nil.
CleanUpScanStep(c, a) ==
    LET e  == c.listing[c.idx]
        c1 == IF ~Match(e, c.name, c.key) THEN c
              ELSE IF ~ValidURL(e.ID)
                   THEN [c EXCEPT !.dels = Append(@, [id |-> e.ID, outcome |-> "build"])]
              ELSE [Sent(c, DeleteRequest(e.ID)) EXCEPT
                       !.dels = Append(@, [id |-> e.ID, outcome |-> DeleteOutcome(a)])]
        c2 == [c1 EXCEPT !.idx = @ + 1]
    IN  IF c.idx = Len(c.listing) THEN Return(c2, "ok") ELSE c2

\* DELETE /records/<id> at the provider: a 2xx answer means the record is
\* gone.
Deleted(recs, id, a) ==
    IF a.kind = "status" /\ Is2xx(a.status) THEN WithoutID(recs, id) ELSE recs

CleanUpScan(p, a) ==
    /\ calls[p].op = "CleanUp"
    /\ calls[p].pc = "scan"
    /\ LET c  == calls[p]
           id == c.listing[c.idx].ID
       IN  /\ ScanSends(c) /\ a.kind = "status" /\ Is2xx(a.status)
                 => HasID(records, id)
           /\ calls' = [calls EXCEPT ![p] = CleanUpScanStep(c, a)]
           /\ records' = IF ScanSends(c) THEN Deleted(records, id, a)
                         ELSE records
    /\ Remember(round, calls'[p])
    /\ UNCHANGED nextId

\* ------------------------------------------------------------ specifications

\* A host that makes one call at a time, of any operation with any
\* challenge, against a provider that may answer anything.
OneAtATime(p) == p = 1 /\ \A q \in CallIds : ~Active(q)

Next ==
    \/ \E p \in CallIds, ch \in Challenges, cfgOk \in BOOLEAN :
          OneAtATime(p) /\ PresentBegin(p, ch, cfgOk)
    \/ \E p \in CallIds, a \in ZoneAnswers : PresentZones(p, a)
    \/ \E p \in CallIds, a \in RecordAnswers : PresentRecord(p, a)
    \/ \E p \in CallIds, ch \in Challenges, cfgOk \in BOOLEAN :
          OneAtATime(p) /\ CleanUpBegin(p, ch, cfgOk)
    \/ \E p \in CallIds, a \in ZoneAnswers : CleanUpZones(p, a)
    \/ \E p \in CallIds, a \in ListAnswers : CleanUpList(p, a)
    \/ \E p \in CallIds, a \in RecordAnswers : CleanUpScan(p, a)

Spec == Init /\ [][Next]_vars

\* A host that runs Present(k1), CleanUp(k1), Present(k2) and CleanUp(k2)
\* once each, in any order and at the same time, against a provider that is
\* up.
Role(p) ==
    [op |-> IF p \in {1, 3} THEN "Present" ELSE "CleanUp",
     ch |-> ChallengeRequest(IF p \in {1, 2} THEN "k1" ELSE "k2")]

Once(p, op) == calls[p].pc = "idle" /\ Role(p).op = op

NextConcurrent ==
    \/ \E p \in CallIds : Once(p, "Present") /\ PresentBegin(p, Role(p).ch, TRUE)
    \/ \E p \in CallIds, a \in GoodZoneAnswers : PresentZones(p, a)
    \/ \E p \in CallIds, a \in GoodCreateAnswers : PresentRecord(p, a)
    \/ \E p \in CallIds : Once(p, "CleanUp") /\ CleanUpBegin(p, Role(p).ch, TRUE)
    \/ \E p \in CallIds, a \in GoodZoneAnswers : CleanUpZones(p, a)
    \/ \E p \in CallIds, a \in GoodListAnswers : CleanUpList(p, a)
    \/ \E p \in CallIds, a \in GoodDeleteAnswers : CleanUpScan(p, a)

SpecConcurrent == Init /\ [][NextConcurrent]_vars

\* The domain split on its own: getDomainAndEntry, a function of the
\* challenge alone, is called with any resolved FQDN and resolved zone.
InitSplit ==
    /\ \E f \in Strings, z \in Strings :
          domainSplit = [NoSplit EXCEPT !.ResolvedFQDN = f, !.ResolvedZone = z]
    /\ records = <<>>
    /\ records0 = <<>>
    /\ nextId = FirstFreshID
    /\ calls = [p \in CallIds |-> NoCall]
    /\ presented = {}
    /\ round = NoRound

\* Lines 154 and 243: name, zone := c.getDomainAndEntry(ch)
Split ==
    /\ domainSplit.pc = "idle"
    /\ LET r == getDomainAndEntry(domainSplit)
       IN  domainSplit' = [domainSplit EXCEPT !.pc = "done", !.entry = r.entry,
                                  !.domain = r.domain]
    /\ UNCHANGED <<records, nextId, calls, records0, presented, round>>

NextSplit == Split

SpecSplit == InitSplit /\ [][NextSplit]_vars

\* -------------------------------------------------------------------- claims

\* The (type, name, value) triple of record e is ("TXT", label, key), the
\* label being that of the challenges.
IsTriple(e, key) == e.Type = "TXT" /\ e.Name = <<"a">> /\ e.Value = key

\* The identifiers of the records of `seq`, in order.
IDs(seq) == [i \in 1..Len(seq) |-> seq[i].ID]

\* The identifiers the call has sent a DELETE for, in order.
DeleteArgs(c) ==
    LET sel == SelectSeq(c.reqs, LAMBDA r : r.kind = "delete")
    IN  [i \in 1..Len(sel) |-> sel[i].arg]

\* The requests of the call that work on records: creation, listing, DELETE.
RecordRequests(c) == SelectSeq(c.reqs, LAMBDA r : r.kind # "zones")

InListing(c, e) == \E i \in 1..Len(c.listing) : c.listing[i] = e

\* The zone lookup and the record listing of CleanUp call c succeeded, every
\* matching record got its DELETE and every DELETE succeeded, and the call
\* has returned.
CleanUpAllSucceeded(c) ==
    /\ c.op = "CleanUp" /\ c.pc = "done" /\ c.result = "ok"
    /\ c.zanswer = "zones"
    /\ c.lanswer = "json" /\ c.lstatus = StatusOK
    /\ \A i \in 1..Len(c.dels) : c.dels[i].outcome = "deleted"

\* C1: when the zone lookup, the record listing and every DELETE of a CleanUp
\* call succeed, the call has sent a DELETE for exactly the records of the
\* listing whose (type, name, value) is ("TXT", label, key), duplicates
\* included; after it returns none of them is left, and (no other call being
\* in flight) every other record is still there, unchanged.
C1_CleanUpRemovesExactlyMatches ==
    \A p \in CallIds :
        LET c == calls[p]
        IN  CleanUpAllSucceeded(c) =>
              /\ DeleteArgs(c) = IDs(SelectSeq(c.listing, LAMBDA e : IsTriple(e, c.key)))
              /\ \A i \in 1..Len(c.listing) :
                    IsTriple(c.listing[i], c.key) => ~HasID(records, c.listing[i].ID)
              /\ c.solo =>
                    records = SelectSeq(c.before,
                                LAMBDA e : ~(InListing(c, e) /\ IsTriple(e, c.key)))

\* Scenario D: the listing held two TXT records with the key and one with
\* another value under the same name, and CleanUp has returned.
C1_Witness ==
    \E p \in CallIds :
        LET c == calls[p]
        IN  /\ CleanUpAllSucceeded(c)
            /\ Len(SelectSeq(c.listing, LAMBDA e : IsTriple(e, c.key))) = 2
            /\ \E i \in 1..Len(c.listing) :
                  /\ c.listing[i].Type = "TXT" /\ c.listing[i].Name = c.name
                  /\ c.listing[i].Value # c.key
            /\ Len(records) = Len(c.before) - 2

\* The zone query of call c was answered 200 with a zone list that decodes.
ZoneListDecoded(c) == c.zanswer = "zones" /\ c.zstatus = StatusOK

\* C2: when the zone query is answered 200 with a list of zero zones, or of
\* two or more, Present and CleanUp return AmbiguousZone and send no record
\* request.
C2_AmbiguousZoneNoRecordRequest ==
    \A p \in CallIds :
        LET c == calls[p]
        IN  ZoneListDecoded(c) /\ Len(c.zones) # 1 =>
              /\ c.pc = "done"
              /\ c.result = "AmbiguousZone"
              /\ RecordRequests(c) = <<>>

\* C3: no step of Present or CleanUp panics: whatever the provider answers,
\* a call that has ended has returned success or an error value.
C3_NoPanic ==
    \A p \in CallIds :
        calls[p].pc = "done" =>
            calls[p].result \in {"ok", "ConfigError", "TransportError",
                                 "UnexpectedStatus", "DecodeError", "AmbiguousZone"}

\* C4: when the zone query is answered with a status other than 200, Present
\* and CleanUp return UnexpectedStatus having sent the zone query alone, and
\* the provider's records are as they were when the call began.
C4_ZoneStatusNot200 ==
    \A p \in CallIds :
        LET c == calls[p]
        IN  c.zanswer # "none" /\ c.zanswer # "transport" /\ c.zstatus # 200 =>
              /\ c.pc = "done"
              /\ c.result = "UnexpectedStatus"
              /\ c.reqs = <<ZonesRequest(<<"c">>)>>
              /\ c.solo => records = c.before

\* Scenario E for CleanUp: the zone query was answered 500 while the zone
\* held a record of the challenge.
C4_Witness ==
    \E p \in CallIds :
        LET c == calls[p]
        IN  /\ c.op = "CleanUp" /\ c.pc = "done" /\ c.zstatus = 500
            /\ c.result = "UnexpectedStatus"
            /\ \E i \in 1..Len(records) :
                  records[i].ZoneID = "42" /\ IsTriple(records[i], c.key)

\* C5: once the zone lookup of Present has succeeded, a transport failure of
\* the POST makes Present return an error, and an answer to the POST makes it
\* return success, whatever the status.
C5_PostOutcomeDecidesResult ==
    \A p \in CallIds :
        LET c == calls[p]
        IN  c.op = "Present" /\ c.panswer # "none" =>
              /\ ZoneListDecoded(c) /\ Len(c.zones) = 1
              /\ c.pc = "done"
              /\ c.panswer = "transport" => c.result = "TransportError"
              /\ c.panswer = "status" => c.result = "ok"

\* Present has returned success on a 500 answer to its POST.
C5_Witness ==
    \E p \in CallIds :
        LET c == calls[p]
        IN  /\ c.op = "Present" /\ c.pc = "done" /\ c.result = "ok"
            /\ c.panswer = "status" /\ c.pstatus = 500
            /\ records = c.before

\* C6: a Present of a challenge that a Present has returned success for
\* before returns success again when its zone lookup succeeds and the provider
\* answers the POST: the provider accepts the duplicate, and the zone holds
\* one more record of the challenge, or refuses it with a status outside 2xx,
\* and the records are as they were.
C6_PresentAgainSucceeds ==
    \A p \in CallIds :
        LET c == calls[p]
        IN  c.op = "Present" /\ c.again /\ c.panswer = "status" =>
              /\ c.pc = "done" /\ c.result = "ok"
              /\ c.solo /\ Is2xx(c.pstatus) =>
                    /\ Len(records) = Len(c.before) + 1
                    /\ SubSeq(records, 1, Len(c.before)) = c.before
                    /\ [records[Len(records)] EXCEPT !.ID = ""] =
                          Entry("", <<"a">>, 300, "TXT", c.key, "42")
              /\ c.solo /\ ~Is2xx(c.pstatus) => records = c.before

\* The second Present has returned success, the provider having accepted the
\* duplicate: the zone holds two records of the challenge that differ in
\* their identifiers alone.
C6_Witness ==
    \E p \in CallIds :
        LET c == calls[p]
        IN  /\ c.op = "Present" /\ c.again /\ c.pc = "done" /\ c.result = "ok"
            /\ records0 = <<Foreign>>
            /\ Len(records) = 3
            /\ records[2].ID # records[3].ID
            /\ [records[2] EXCEPT !.ID = ""] = [records[3] EXCEPT !.ID = ""]
            /\ records[3].Value = c.key

\* C7: after n >= 1 Presents of a challenge and one CleanUp of it, every
\* provider call of them having succeeded and no other call having been made,
\* zone 42 holds no TXT record with the label and the key, and the provider
\* holds exactly the other records it held before the first Present.
C7_RoundTrip ==
    round.st = "cleaned" =>
        /\ \A i \in 1..Len(records) :
              records[i].ZoneID = "42" => ~IsTriple(records[i], round.key)
        /\ records = SelectSeq(records0,
                        LAMBDA e : ~(e.ZoneID = "42" /\ IsTriple(e, round.key)))

\* Two Presents of a key and the CleanUp of it have returned; the zone held
\* a record of the key and records of other triples before.
C7_Witness ==
    /\ round.st = "cleaned" /\ round.n = 2
    /\ \E i \in 1..Len(records0) :
          records0[i].ZoneID = "42" /\ IsTriple(records0[i], round.key)
    /\ Len(records) >= 3

\* The scan of CleanUp call c has gone through the first n records of its
\* listing.
Scanned(c) ==
    IF c.pc = "scan" THEN SubSeq(c.listing, 1, c.idx - 1) ELSE c.listing

\* C8: the scan of CleanUp goes on after a DELETE that failed: it has sent a
\* DELETE, in the order of the listing, for every record of the challenge it
\* has come to (one whose identifier makes no URL apart: that request cannot
\* be built), and CleanUp returns success when the scan has ended, however
\* many of the deletions failed.
C8_ScanIsBestEffort ==
    \A p \in CallIds :
        LET c == calls[p]
        IN  c.op = "CleanUp" /\ c.lanswer = "json" =>
              /\ c.pc \in {"scan", "done"}
              /\ [i \in 1..Len(c.dels) |-> c.dels[i].id] =
                    IDs(SelectSeq(Scanned(c), LAMBDA e : IsTriple(e, c.key)))
              /\ DeleteArgs(c) =
                    IDs(SelectSeq(Scanned(c),
                          LAMBDA e : IsTriple(e, c.key) /\ e.ID # "\n"))
              /\ c.pc = "done" => c.result = "ok"

\* CleanUp has returned success after a DELETE that could not be sent, one
\* that could not be built and, after both, one that succeeded.
C8_Witness ==
    \E p \in CallIds :
        LET c == calls[p]
        IN  /\ c.op = "CleanUp" /\ c.pc = "done" /\ c.result = "ok"
            /\ Len(c.dels) = 3
            /\ c.dels[1].outcome = "transport"
            /\ c.dels[2].outcome = "build"
            /\ c.dels[3].outcome = "deleted"
            /\ ~HasID(records, c.dels[3].id)

\* The record of the listing of call c that has identifier id has value v.
ListedValue(c, id, v) ==
    \A i \in 1..Len(c.listing) : c.listing[i].ID = id => c.listing[i].Value = v

\* C9: with Present and CleanUp of two challenges of one name and different
\* keys running at the same time, a CleanUp sends a DELETE for records of its
\* own key alone, and a record leaves the provider only in a step of a
\* CleanUp of the record's key: the record of Present(k2) stays until
\* CleanUp(k2) deletes it.
C9_NoInterference ==
    /\ [](\A p \in CallIds :
            LET c == calls[p]
            IN  \A i \in 1..Len(c.reqs) :
                    c.reqs[i].kind = "delete" => ListedValue(c, c.reqs[i].arg, c.key))
    /\ [][\A i \in 1..Len(records) :
            ~HasID(records', records[i].ID) =>
                \E p \in CallIds :
                    /\ calls[p].op = "CleanUp" /\ calls[p].pc = "scan"
                    /\ calls[p].key = records[i].Value
                    /\ calls'[p] # calls[p]]_vars

\* CleanUp(k1) has deleted a record and returned, its listing having held
\* the record Present(k2) created, which is still there; CleanUp(k2) has not
\* begun.
C9_Witness ==
    /\ calls[3].pc = "done" /\ calls[3].result = "ok"
    /\ calls[2].pc = "done" /\ Len(DeleteArgs(calls[2])) >= 1
    /\ calls[4].pc = "idle"
    /\ \E i \in 1..Len(calls[2].listing) :
          /\ calls[2].listing[i].Value = "k2"
          /\ calls[2].listing[i].ID \notin {"0", "1", "2", "3", "4", "5", "\n"}
          /\ HasID(records, calls[2].listing[i].ID)

\* C10: Present sends a POST only after its zone query was answered 200 with
\* exactly one zone, and then sends one POST, with the payload (id empty,
\* name = the label, ttl = 300, type = "TXT", value = the key, zone_id = the
\* identifier of that zone); it sends no record listing and no DELETE.
C10_PresentRequests ==
    \A p \in CallIds :
        LET c == calls[p]
        IN  c.op = "Present" =>
              /\ \A i \in 1..Len(c.reqs) : c.reqs[i].kind \in {"zones", "create"}
              /\ RecordRequests(c) # <<>> =>
                    /\ ZoneListDecoded(c) /\ Len(c.zones) = 1
                    /\ c.reqs[1].kind = "zones"
                    /\ RecordRequests(c) =
                          << [kind |-> "create", method |-> "POST",
                              arg |-> [ID |-> "", Name |-> <<"a">>, TTL |-> 300,
                                       Type |-> "TXT", Value |-> c.key,
                                       ZoneID |-> c.zones[1].ZoneID]] >>
              /\ c.pc = "done" /\ ZoneListDecoded(c) /\ Len(c.zones) = 1 =>
                    Len(RecordRequests(c)) = 1

\* Scenario C: Present has sent its POST for zone 42, and the provider has
\* created the record.
C10_Witness ==
    \E p \in CallIds :
        LET c == calls[p]
        IN  /\ c.op = "Present" /\ c.pc = "done" /\ c.result = "ok"
            /\ c.zones = <<Z42>>
            /\ Len(c.reqs) = 2 /\ c.reqs[2].method = "POST"
            /\ Is2xx(c.pstatus)
            /\ records[Len(records)].Value = c.key

\* s with one trailing "." removed, s itself when it has none.
RefDropDot(s) ==
    IF s # <<>> /\ s[Len(s)] = "." THEN [i \in 1..(Len(s) - 1) |-> s[i]] ELSE s

\* f with the suffix z removed when z is a suffix of f, f itself otherwise.
RefDropSuffix(f, z) ==
    IF \E pre \in Strings : pre \o z = f
    THEN CHOOSE pre \in Strings : pre \o z = f
    ELSE f

\* C11: getDomainAndEntry(F, Z) returns the apex Z with one trailing "."
\* removed and the label F with the suffix Z removed (F itself when Z is no
\* suffix of it), then with one trailing "." removed.  In particular
\* F = L + "." + Z with Z dot-terminated yields (L, Z without its last dot),
\* and when Z is no suffix of F the label is F without its trailing dot.
C11_SplitIsReference ==
    domainSplit.pc = "done" =>
        LET f == domainSplit.ResolvedFQDN
            z == domainSplit.ResolvedZone
        IN  /\ domainSplit.domain = RefDropDot(z)
            /\ domainSplit.entry = RefDropDot(RefDropSuffix(f, z))
            /\ \A l \in Strings :
                  z # <<>> /\ z[Len(z)] = "." /\ f = l \o <<".">> \o z =>
                      /\ domainSplit.entry = l
                      /\ domainSplit.domain \o <<".">> = z
            /\ (\A pre \in Strings : pre \o z # f) =>
                  domainSplit.entry = RefDropDot(f)

\* Scenario A: the zone "c." and the FQDN "a.c." have been split into the
\* label "a" and the apex "c".
C11_Witness ==
    /\ domainSplit.pc = "done"
    /\ domainSplit.ResolvedFQDN = <<"a", ".", "c", ".">>
    /\ domainSplit.ResolvedZone = <<"c", ".">>
    /\ domainSplit.entry = <<"a">>
    /\ domainSplit.domain = <<"c">>

====
